---- MODULE Spec2Model ----
(***************************************************************************)
(* OLauncherStatus: the probing-and-caching engine of the status server.   *)
(*                                                                         *)
(* Two variants of the server exist in the repository: src/src/server.js   *)
(* (strategies nameMatch and jsonExactMatch) and src/unnamed/part_000      *)
(* (strategies jsonAny and urlOk).  Both share isOkStatus,                 *)
(* abortSignalWithTimeout, probeHostBasic and getStatusData verbatim.      *)
(*                                                                         *)
(* Granularity.  The program runs on one JavaScript event loop: a         *)
(* callback (an incoming request, a network event of one fetch, a timer)   *)
(* runs to completion, and so does every promise continuation.  An action  *)
(* of the model is one callback together with the continuation of the      *)
(* probe it resumes, up to that probe's next await.  The continuation of   *)
(* Promise.all (action Settle) is a step of its own, which admits more     *)
(* interleavings than the event loop does.                                 *)
(***************************************************************************)
EXTENDS Integers, Sequences, FiniteSets, TLC

VARIABLES
    variant,        \* which of the two source files is running
    hosts,          \* the configured HOSTS list
    net,            \* what the outside world can answer (never changes)
    expectedName,   \* EXPECTED_SESSION_NAME, loaded once at start-up
    refFile,        \* content of the file at EXPECTED_APIMS_JSON_PATH
    now,            \* Date.now()
    cache,          \* let cache = { data, expires, inFlight }
    runs,           \* the fan-out runs that have not completed
    nruns,          \* number of fan-out runs started so far
    callers,        \* the callers of getStatusData
    last,           \* history: the run that completed most recently
    degraded        \* history: the hosts whose configuration failed to load

vars == <<variant, hosts, net, expectedName, refFile, now, cache, runs, nruns, callers, last,
          degraded>>

----------------------------------------------------------------------------
(* Bounds of the model *)

MaxTime == 3        \* the clock runs from 0 to MaxTime
MaxRuns == 2        \* at most MaxRuns fan-out runs are started
MaxCallers == 2     \* number of concurrent readers

(* Configuration.  Both values are read from the environment at start-up;  *)
(* the model uses a small configuration, in clock ticks.                   *)
PROBE_TIMEOUT_MS == 1
CACHE_TTL_MS == 2

Callers == DOMAIN callers

----------------------------------------------------------------------------
(* JSON values, as JSON.parse produces them.  An object is the sequence    *)
(* of its <<key, value>> pairs in insertion order.                         *)

JNull == [t |-> "null"]
JNum(n) == [t |-> "num", n |-> n]
JStr(s) == [t |-> "str", s |-> s]
JArr(el) == [t |-> "arr", el |-> el]
JObj(kv) == [t |-> "obj", kv |-> kv]

(* Rank of a key in the order Array.prototype.sort() gives strings         *)
(* (UTF-16 code unit order), for the keys the model uses.                  *)
KeyRank(k) ==
    CASE k = "a" -> 1
      [] k = "b" -> 2
      [] k = "id" -> 3
      [] k = "name" -> 4

RECURSIVE SortKeys(_)
SortKeys(S) ==
    IF S = {} THEN <<>>
    ELSE LET k == CHOOSE x \in S : \A y \in S : KeyRank(x) <= KeyRank(y)
         IN  <<k>> \o SortKeys(S \ {k})

RECURSIVE Join(_)
Join(parts) ==
    IF Len(parts) = 0 THEN ""
    ELSE IF Len(parts) = 1 THEN parts[1]
    ELSE parts[1] \o "," \o Join(Tail(parts))

Quote(s) == "\"" \o s \o "\""

(* value[k] of an object: the value of the pair whose key is k *)
Lookup(kv, k) == kv[CHOOSE i \in 1..Len(kv) : kv[i][1] = k][2]

HasKey(v, k) == v.t = "obj" /\ \E i \in 1..Len(v.kv) : v.kv[i][1] = k

(* canonicalStringify without ".sort()": the keys in insertion order *)
RECURSIVE canonicalStringify_unsorted(_)
canonicalStringify_unsorted(value) ==
    CASE value.t = "null" -> "null"
      [] value.t = "num" -> ToString(value.n)
      [] value.t = "str" -> Quote(value.s)
      [] value.t = "arr" ->
            "[" \o Join([i \in 1..Len(value.el) |->
                            canonicalStringify_unsorted(value.el[i])]) \o "]"
      [] value.t = "obj" ->
            "{" \o Join([i \in 1..Len(value.kv) |->
                        Quote(value.kv[i][1]) \o ":"
                            \o canonicalStringify_unsorted(value.kv[i][2])])
                \o "}"

RECURSIVE canonicalStringify(_)
canonicalStringify(value) ==
    CASE value.t = "null" -> "null"
      [] value.t = "num" -> ToString(value.n)
      [] value.t = "str" -> Quote(value.s)
      [] value.t = "arr" ->
            "[" \o Join([i \in 1..Len(value.el) |-> canonicalStringify(value.el[i])]) \o "]"
      [] value.t = "obj" ->
            LET keys == SortKeys({value.kv[i][1] : i \in 1..Len(value.kv)})
            IN  "{" \o Join([i \in 1..Len(keys) |->
                        Quote(keys[i]) \o ":" \o canonicalStringify(Lookup(value.kv, keys[i]))])
                \o "}"

(* readJsonFile: the parsed file, or null when it is missing or malformed  *)
NoFile == [ok |-> FALSE, v |-> JNull]
readJsonFile(file) == IF file.ok THEN file.v ELSE JNull

----------------------------------------------------------------------------
(* Hosts and their checks *)

HOSTS == hosts

HostSet == {HOSTS[i] : i \in 1..Len(HOSTS)}

(* CUSTOM_CHECKS[host]?.type, "none" when the host has no entry *)
CUSTOM_CHECKS(host) ==
    IF variant = "server"
    THEN CASE host = "sessionserver.mojang.com" -> "nameMatch"
           [] host = "api.minecraftservices.com" -> "jsonExactMatch"
           [] OTHER -> "none"
    ELSE CASE host = "sessionserver.mojang.com" -> "jsonAny"
           [] host = "libraries.minecraft.net" -> "urlOk"
           [] OTHER -> "none"

isOkStatus(code) == code >= 200 /\ code < 400

----------------------------------------------------------------------------
(* Strings that the code searches are sequences of characters.             *)

Lower(c) ==
    CASE c = "A" -> "a" [] c = "J" -> "j" [] c = "S" -> "s"
      [] c = "O" -> "o" [] c = "N" -> "n" [] OTHER -> c

toLowerCase(s) == [i \in 1..Len(s) |-> Lower(s[i])]

includes(s, needle) ==
    \E i \in 0..(Len(s) - Len(needle)) : SubSeq(s, i + 1, i + Len(needle)) = needle

APPLICATION_JSON ==
    <<"a","p","p","l","i","c","a","t","i","o","n","/","j","s","o","n">>
PLUS_JSON == <<"+","j","s","o","n">>

----------------------------------------------------------------------------
(* What the network can answer.                                            *)

Statuses == {199, 200, 399, 400, 404, 500}

ContentTypes ==
    { <<>>,                                                        \* no header
      APPLICATION_JSON,
      <<"A","p","p","l","i","c","a","t","i","o","n","/","J","S","O","N">>,
      <<"a","/","h","a","l","+","j","s","o","n">>,
      <<"t","e","x","t","/","j","s","o","n">>,
      <<"t","e","x","t","/","h","t","m","l">> }

(* Only probeJsonAny reads a header, so the answers to the other probes    *)
(* carry none.                                                             *)
Responses(host) ==
    [status : net.statuses,
     ct : IF CUSTOM_CHECKS(host) = "jsonAny" THEN net.cts ELSE {<<>>}]

REFERENCE == JObj(<< <<"b", JNum(2)>>, <<"a", JNum(1)>> >>)

JsonValues ==
    { JNull,
      JStr("jeb_"),
      JArr(<<JNum(1), JNum(2)>>),
      JObj(<< <<"name", JStr("jeb_")>> >>),
      JObj(<< <<"name", JStr("Jeb_")>> >>),
      JObj(<< <<"id", JNum(1)>>, <<"name", JStr("jeb_")>> >>),
      JObj(<< <<"a", JNum(1)>>, <<"b", JNum(2)>> >>),
      REFERENCE,
      JObj(<< <<"a", JNum(1)>> >>),
      JObj(<< <<"a", JNum(2)>>, <<"b", JNum(2)>> >>) }

(* Documents for the comparison of canonical strings: scalars, sequences   *)
(* and mappings, nested, in several key and element orders.                *)
AB == JObj(<< <<"a", JNum(1)>>, <<"b", JNum(2)>> >>)
BA == JObj(<< <<"b", JNum(2)>>, <<"a", JNum(1)>> >>)
L12 == JArr(<<JNum(1), JNum(2)>>)
L21 == JArr(<<JNum(2), JNum(1)>>)

CanonValues ==
    { JNull, JNum(1), JStr("1"), JStr("jeb_"),
      JArr(<<>>), JObj(<<>>), JArr(<<JNum(1)>>),
      L12, L21, JArr(<<L12>>), JArr(<<JArr(<<JNum(1)>>), JNum(2)>>),
      AB, BA,
      JObj(<< <<"a", JNum(2)>>, <<"b", JNum(1)>> >>),
      JObj(<< <<"a", JNum(1)>> >>),
      JObj(<< <<"a", JStr("1")>> >>),
      JObj(<< <<"a", AB>>, <<"b", L12>> >>),
      JObj(<< <<"b", L12>>, <<"a", BA>> >>),
      JObj(<< <<"b", L21>>, <<"a", BA>> >>),
      JObj(<< <<"a", L12>>, <<"b", AB>> >>),
      JArr(<<AB, BA>>), JArr(<<BA, AB>>),
      JArr(<<JObj(<< <<"a", JNum(1)>> >>), JObj(<< <<"b", JNum(2)>> >>)>>),
      JArr(<<JObj(<< <<"b", JNum(2)>> >>), JObj(<< <<"a", JNum(1)>> >>)>>) }

(* A body either parses to a JSON value or makes res.json() throw.         *)
Invalid == [ok |-> FALSE, v |-> JNull]
Parsed(j) == [ok |-> TRUE, v |-> j]
Bodies == {Parsed(j) : j \in JsonValues} \cup {Invalid}

(* The reference file is missing or malformed, or holds a JSON document.   *)
Files == {NoFile, Parsed(REFERENCE), Parsed(JNull)}

(* EXPECTED_SESSION_NAME = data?.name || null; "" stands for null.         *)
Names == {"", "jeb_"}

(* The world of a whole server: few distinct answers.                      *)
Coarse ==
    [statuses |-> {200, 404}, cts |-> {<<>>},
     bodies |-> {Parsed(JNull), Invalid},
     files |-> {NoFile}]

(* The world of a single probe: every answer the strategies distinguish.   *)
Rich == [statuses |-> Statuses, cts |-> ContentTypes, bodies |-> Bodies, files |-> Files]

----------------------------------------------------------------------------
(* One probe: the state of one call of probeHost(host).                    *)
(*   pc      "head", "get": probeHostBasic awaits that fetch;              *)
(*           "fetch": a strategy awaits its GET; "body": awaits res.json();*)
(*           "done": the promise of probeHost is settled                   *)
(*   timer   the setTimeout of abortSignalWithTimeout:                     *)
(*           "none" (never created), "armed", "fired", "cleared"           *)
(*   due     the time the timer is set for                                 *)
(*   aborted controller.signal.aborted                                     *)
(*   result  "none" while pending, "green"/"red" when resolved,            *)
(*           "rejected" when the promise rejected                          *)
(*   expected the reference document read by probeJsonExactMatch           *)
(*   log     history: the outcome of every fetch the probe has awaited     *)

NoRes == [status |-> 0, ct |-> <<>>]

Probe(pc, timer, result, expected, log) ==
    [pc |-> pc, timer |-> timer, due |-> 0, aborted |-> FALSE, result |-> result,
     expected |-> expected, log |-> log]

(* A log entry: what one awaited operation settled with.                   *)
(*   m    "HEAD" or "GET" for a fetch, "json" for res.json()               *)
(*   out  "response", "parsed" when it fulfilled; "error" (transport       *)
(*        failure), "abort" (the signal aborted it), "invalid" (the body   *)
(*        is not JSON) when it rejected                                    *)
Entry(m, out, res, v) ==
    [m |-> m, out |-> out, status |-> res.status, ct |-> res.ct, v |-> v]

Failure(m, out) == Entry(m, out, NoRes, JNull)

(* A probe that never calls cancel() *)
cancel_never(p) == p

(* cancel(): clearTimeout(t) *)
cancel(p) == [p EXCEPT !.timer = IF @ = "armed" THEN "cleared" ELSE @]

(* abortSignalWithTimeout(ms): a fresh controller and a timer armed for ms *)
(* from now                                                                *)
abortSignalWithTimeout(p) ==
    [p EXCEPT !.timer = "armed", !.aborted = FALSE, !.due = now + PROBE_TIMEOUT_MS]

Return(p, verdict) == [p EXCEPT !.pc = "done", !.result = verdict]

Throw(p) == [p EXCEPT !.pc = "done", !.result = "rejected"]

Method(p) == CASE p.pc = "head" -> "HEAD" [] p.pc = "body" -> "json" [] OTHER -> "GET"

Pending(p) == p.pc # "done"

----------------------------------------------------------------------------
(* The strategies.  Each operator is the continuation of the probe p when  *)
(* the operation it awaits settles with the outcome e.                     *)

Rejected(e) == e.out \in {"error", "abort", "invalid"}

(* A probe whose awaits are not inside try/catch *)
Caught_never(e) == FALSE

(* Every await of every probe is inside try { } catch { }, which turns the *)
(* rejection e into false or "red"                                         *)
Caught(e) == TRUE

(* tryMethod(method): true iff the fetch answered with an ok status;       *)
(* catch { return false }                                                  *)
tryMethod(e) == IF Rejected(e) THEN FALSE ELSE isOkStatus(e.status)

(* probeHostBasic after "await tryMethod('GET')" *)
AfterGet(p, ok) == Return(cancel(p), IF ok THEN "green" ELSE "red")

(* probeHostBasic without "if (!ok) ok = await tryMethod('GET')" *)
AfterHead_noFallback(p, ok) == Return(cancel(p), IF ok THEN "green" ELSE "red")

(* probeHostBasic whose GET is not given the signal of the controller *)
AfterHead_unsignalledGet(p, ok) ==
    IF ok THEN Return(cancel(p), "green") ELSE [p EXCEPT !.pc = "get"]

(* probeHostBasic making a new abortSignalWithTimeout for the GET *)
AfterHead_freshTimeout(p, ok) ==
    IF ok THEN Return(cancel(p), "green")
    ELSE abortSignalWithTimeout([p EXCEPT !.pc = "get"])

(* probeHostBasic after "await tryMethod('HEAD')": if (!ok) the GET is     *)
(* issued with the same signal; a fetch given an aborted signal rejects    *)
(* without a request                                                       *)
AfterHead(p, ok) ==
    IF ok THEN Return(cancel(p), "green")
    ELSE LET q == [p EXCEPT !.pc = "get"]
             f == Failure("GET", "abort")
         IN  IF q.aborted
             THEN IF Caught(f)
                  THEN AfterGet([q EXCEPT !.log = Append(@, f)], tryMethod(f))
                  ELSE Throw([q EXCEPT !.log = Append(@, f)])
             ELSE q

probeHostBasic(p, e) ==
    IF p.pc = "head" THEN AfterHead(p, tryMethod(e)) ELSE AfterGet(p, tryMethod(e))

(* live?.name?.toLowerCase() === expectedName.toLowerCase() *)
NameEquals_ignoreCase(live, name) ==
    LET lower(v) == IF v = JStr("Jeb_") THEN JStr("jeb_") ELSE v
    IN  HasKey(live, "name") /\ lower(Lookup(live.kv, "name")) = lower(JStr(name))

(* live?.name === expectedName *)
NameEquals(live, name) == HasKey(live, "name") /\ Lookup(live.kv, "name") = JStr(name)

probeNameMatch(p, e) ==
    IF Rejected(e) THEN Return(cancel(p), "red")
    ELSE IF p.pc = "fetch"
    THEN IF ~isOkStatus(e.status) THEN Return(cancel(p), "red")
         ELSE [p EXCEPT !.pc = "body"]
    ELSE Return(cancel(p), IF NameEquals(e.v, expectedName) THEN "green" ELSE "red")

(* probeJsonExactMatch comparing JSON.stringify(live) with                 *)
(* JSON.stringify(expected): the keys stay in insertion order              *)
probeJsonExactMatch_plain(p, e) ==
    IF Rejected(e) THEN Return(cancel(p), "red")
    ELSE IF p.pc = "fetch"
    THEN IF ~isOkStatus(e.status) THEN Return(cancel(p), "red")
         ELSE [p EXCEPT !.pc = "body"]
    ELSE Return(cancel(p), IF e.v = p.expected THEN "green" ELSE "red")

probeJsonExactMatch(p, e) ==
    IF Rejected(e) THEN Return(cancel(p), "red")
    ELSE IF p.pc = "fetch"
    THEN IF ~isOkStatus(e.status) THEN Return(cancel(p), "red")
         ELSE [p EXCEPT !.pc = "body"]
    ELSE LET liveCanon == canonicalStringify(e.v)
             expCanon == canonicalStringify(p.expected)
         IN  Return(cancel(p), IF liveCanon = expCanon THEN "green" ELSE "red")

(* probeJsonAny testing the header as the server sent it, without          *)
(* .toLowerCase()                                                          *)
probeJsonAny_caseSensitive(p, e) ==
    IF p.pc = "fetch"
    THEN IF Rejected(e) THEN Return(cancel(p), "red")
         ELSE IF ~isOkStatus(e.status) THEN Return(cancel(p), "red")
         ELSE IF includes(e.ct, APPLICATION_JSON) \/ includes(e.ct, PLUS_JSON)
              THEN Return(cancel(p), "green")
              ELSE [p EXCEPT !.pc = "body"]
    ELSE Return(cancel(p), IF Rejected(e) THEN "red" ELSE "green")

probeJsonAny(p, e) ==
    IF p.pc = "fetch"
    THEN IF Rejected(e) THEN Return(cancel(p), "red")
         ELSE IF ~isOkStatus(e.status) THEN Return(cancel(p), "red")
         ELSE LET ct == toLowerCase(e.ct)
              IN  IF includes(ct, APPLICATION_JSON) \/ includes(ct, PLUS_JSON)
                  THEN Return(cancel(p), "green")
                  ELSE [p EXCEPT !.pc = "body"]
    ELSE Return(cancel(p), IF Rejected(e) THEN "red" ELSE "green")

probeUrlOk(p, e) ==
    IF Rejected(e) THEN Return(cancel(p), "red")
    ELSE Return(cancel(p), IF isOkStatus(e.status) THEN "green" ELSE "red")

(* The configuration of the host's check is not loaded: the start-up load  *)
(* left EXPECTED_SESSION_NAME null; readJsonFile could not read or parse   *)
(* the reference file                                                      *)
LoadFails(host) ==
    CASE CUSTOM_CHECKS(host) = "nameMatch" -> expectedName = ""
      [] CUSTOM_CHECKS(host) = "jsonExactMatch" -> ~refFile.ok
      [] OTHER -> FALSE

(* probeHost(host) up to its first await *)
probeHost(host) ==
    LET kind == CUSTOM_CHECKS(host)
        fresh(pc) == abortSignalWithTimeout(Probe(pc, "none", "none", JNull, <<>>))
    IN  CASE kind = "nameMatch" ->
                IF expectedName = "" THEN Probe("done", "none", "red", JNull, <<>>)
                ELSE fresh("fetch")
          [] kind = "jsonExactMatch" ->
                LET expected == readJsonFile(refFile)
                IN  IF expected = JNull THEN Probe("done", "none", "red", JNull, <<>>)
                    ELSE [fresh("fetch") EXCEPT !.expected = expected]
          [] kind \in {"jsonAny", "urlOk"} -> fresh("fetch")
          [] OTHER -> fresh("head")

(* The probe of host resumes: the operation it awaits settled with e.      *)
Resume(host, p, e) ==
    LET kind == CUSTOM_CHECKS(host)
        q == [p EXCEPT !.log = Append(@, e)]
    IN  CASE Rejected(e) /\ ~Caught(e) -> Throw(q)
          [] kind = "nameMatch" -> probeNameMatch(q, e)
          [] kind = "jsonExactMatch" -> probeJsonExactMatch(q, e)
          [] kind = "jsonAny" -> probeJsonAny(q, e)
          [] kind = "urlOk" -> probeUrlOk(q, e)
          [] OTHER -> probeHostBasic(q, e)

(* setTimeout(() => controller.abort(), ms) fires: the signal is aborted   *)
(* and the operation the probe awaits rejects.                             *)
Abort(host, p) ==
    Resume(host, [p EXCEPT !.timer = "fired", !.aborted = TRUE], Failure(Method(p), "abort"))

----------------------------------------------------------------------------
(* The cache and the fan-out runs.                                         *)
(*                                                                         *)
(* cache.data = <<>> stands for null, cache.inFlight = 0 for null; a       *)
(* non-null inFlight is the id of the run whose promise it holds.          *)
(* A run is the async closure of getStatusData:                            *)
(*   start   the value of "now" the closure captured                       *)
(*   st      "active", or "failed" when its promise rejected               *)
(*   probes  the probe of every host                                       *)
(*   order   history: the hosts in the order their probes settled          *)

(* A caller of getStatusData (the request handler awaiting it):            *)
(*   st   "idle", "waiting" (it awaits the promise of a run), "returned",  *)
(*        "failed" (the promise it awaited rejected)                       *)
(*   run  the run whose promise it was given, 0 when it was given the      *)
(*        stored snapshot                                                  *)
(*   val  the snapshot it received                                         *)

NULL == <<>>

Idle == [st |-> "idle", run |-> 0, val |-> NULL]

NoRun == [id |-> 0, start |-> 0, doneAt |-> 0, verdict |-> <<>>, order |-> <<>>]

(* let cache = { data: null, expires: 0, inFlight: null } *)
Fresh ==
    /\ now = 0
    /\ cache = [data |-> NULL, expires |-> 0, inFlight |-> 0]
    /\ runs = <<>>
    /\ nruns = 0
    /\ last = NoRun
    /\ degraded = {}

(* A server with two hosts and MaxCallers readers.  server.js: a host     *)
(* with the default check and the nameMatch host, whose expected name      *)
(* failed to load.  part_000: the jsonAny host and a urlOk host.           *)
Init ==
    /\ variant \in {"server", "part0"}
    /\ hosts = IF variant = "server"
               THEN <<"minecraft.net", "sessionserver.mojang.com">>
               ELSE <<"sessionserver.mojang.com", "libraries.minecraft.net">>
    /\ net = Coarse
    /\ expectedName = ""
    /\ refFile = NoFile
    /\ callers = [c \in 1..MaxCallers |-> Idle]
    /\ Fresh

(* A server with two hosts and one reader: a host with the default check  *)
(* and a host whose check reads the body (nameMatch, jsonAny).             *)
InitPair ==
    /\ variant \in {"server", "part0"}
    /\ hosts = <<"minecraft.net", "sessionserver.mojang.com">>
    /\ net = [Coarse EXCEPT !.bodies = {Parsed(JObj(<< <<"name", JStr("jeb_")>> >>)), Invalid}]
    /\ expectedName = IF variant = "server" THEN "jeb_" ELSE ""
    /\ refFile = NoFile
    /\ callers = [c \in 1..1 |-> Idle]
    /\ Fresh

(* A server with one host, of any strategy, and one reader *)
InitProbe ==
    /\ variant \in {"server", "part0"}
    /\ hosts \in (IF variant = "server"
                  THEN {<<"minecraft.net">>, <<"sessionserver.mojang.com">>,
                        <<"api.minecraftservices.com">>}
                  ELSE {<<"minecraft.net">>, <<"sessionserver.mojang.com">>,
                        <<"libraries.minecraft.net">>})
    /\ net = Rich
    /\ expectedName \in (IF variant = "server" THEN Names ELSE {""})
    /\ refFile \in (IF variant = "server" THEN net.files ELSE {NoFile})
    /\ callers = [c \in 1..1 |-> Idle]
    /\ Fresh

(* server.js with the jsonExactMatch host alone: any document as the       *)
(* reference file, any document as the body                                *)
InitCanon ==
    /\ variant = "server"
    /\ hosts = <<"api.minecraftservices.com">>
    /\ net = [statuses |-> {200, 404}, cts |-> {<<>>},
              bodies |-> {[ok |-> TRUE, v |-> j] : j \in CanonValues} \cup {Invalid},
              files |-> {[ok |-> TRUE, v |-> j] : j \in CanonValues \ {JNull}}]
    /\ expectedName = ""
    /\ refFile \in net.files
    /\ callers = [c \in 1..1 |-> Idle]
    /\ Fresh

(* A server with one host whose check reads the body (nameMatch with its   *)
(* expected name loaded, jsonAny) and MaxCallers readers                   *)
InitLive ==
    /\ variant \in {"server", "part0"}
    /\ hosts = <<"sessionserver.mojang.com">>
    /\ net = [Coarse EXCEPT !.bodies = {Parsed(JObj(<< <<"name", JStr("jeb_")>> >>)), Invalid}]
    /\ expectedName = IF variant = "server" THEN "jeb_" ELSE ""
    /\ refFile = NoFile
    /\ callers = [c \in 1..MaxCallers |-> Idle]
    /\ Fresh

(* getStatusData without "if (cache.inFlight) return cache.inFlight" *)
getStatusData_noJoin(c, t) ==
    IF c.data # NULL /\ c.expires > t THEN "hit" ELSE "start"

(* getStatusData without "if (cache.data && cache.expires > now) return cache.data" *)
getStatusData_noHit(c, t) ==
    IF c.inFlight # 0 THEN "join" ELSE "start"

(* getStatusData with "if (cache.inFlight) return cache.data" *)
getStatusData_staleJoin(c, t) ==
    IF c.data # NULL /\ c.expires > t THEN "hit"
    ELSE IF c.inFlight # 0 THEN "hit"
    ELSE "start"

(* getStatusData with "cache.expires < now" *)
getStatusData_inverted(c, t) ==
    IF c.data # NULL /\ c.expires < t THEN "hit"
    ELSE IF c.inFlight # 0 THEN "join"
    ELSE "start"

(* getStatusData with "cache.expires >= now" *)
getStatusData_lateHit(c, t) ==
    IF c.data # NULL /\ c.expires >= t THEN "hit"
    ELSE IF c.inFlight # 0 THEN "join"
    ELSE "start"

(* The branch getStatusData takes *)
getStatusData(c, t) ==
    IF c.data # NULL /\ c.expires > t THEN "hit"
    ELSE IF c.inFlight # 0 THEN "join"
    ELSE "start"

(* HOSTS.map((h) => probeHost(h)): every probe is started *)
StartProbes == [h \in HostSet |-> probeHost(h)]

(* The values of the promises in the order they settled *)
PromiseAll_settleOrder(run) == [i \in 1..Len(HOSTS) |-> run.probes[run.order[i]].result]

(* Promise.all: the values of the promises, by position *)
PromiseAll(run) == [i \in 1..Len(HOSTS) |-> run.probes[HOSTS[i]].result]

(* Promise.race: ready as soon as one promise has settled *)
AllSettled_race(run) == \E h \in HostSet : ~Pending(run.probes[h])

(* await Promise.all(...) resumes once every promise has settled *)
AllSettled(run) == \A h \in HostSet : ~Pending(run.probes[h])

(* HOSTS.map((h, i) => ({ [h]: results[i] })) *)
Payload(results) == [i \in 1..Len(HOSTS) |-> <<HOSTS[i], results[i]>>]

(* expires: now + CACHE_TTL_MS, "now" being the closure's capture *)
Expires(run, completedAt) == run.start + CACHE_TTL_MS

(* hosts already settled when the probes are started, in list order *)
SettledAtStart(probes) == SelectSeq(HOSTS, LAMBDA h : ~Pending(probes[h]))

Get(c) ==
    /\ callers[c].st # "waiting"
    /\ LET branch == getStatusData(cache, now)
       IN  CASE branch = "hit" ->
                   /\ callers' = [callers EXCEPT ![c] =
                          [st |-> "returned", run |-> 0, val |-> cache.data]]
                   /\ UNCHANGED <<cache, runs, nruns>>
             [] branch = "join" ->
                   /\ callers' = [callers EXCEPT ![c] =
                          IF runs[cache.inFlight].st = "failed"
                          THEN [st |-> "failed", run |-> cache.inFlight, val |-> NULL]
                          ELSE [st |-> "waiting", run |-> cache.inFlight, val |-> NULL]]
                   /\ UNCHANGED <<cache, runs, nruns>>
             [] OTHER ->
                   /\ nruns < MaxRuns
                   /\ now + PROBE_TIMEOUT_MS <= MaxTime
                   /\ LET id == nruns + 1
                          probes == StartProbes
                      IN  /\ runs' = (id :> [start |-> now, st |-> "active",
                                             probes |-> probes,
                                             order |-> SettledAtStart(probes)]) @@ runs
                          /\ nruns' = id
                          /\ cache' = [cache EXCEPT !.inFlight = id]
                          /\ callers' = [callers EXCEPT ![c] =
                                 [st |-> "waiting", run |-> id, val |-> NULL]]
    /\ degraded' = degraded \cup (IF getStatusData(cache, now) = "start"
                                   THEN {h \in HostSet : LoadFails(h)} ELSE {})
    /\ UNCHANGED <<variant, hosts, net, expectedName, refFile, now, last>>

(* A timer whose callback does not abort the controller *)
Signalled_none(host) == {}

(* One controller and one timer for the whole batch *)
Signalled_shared(host) == HostSet

(* The signals that the timer of host's probe aborts: each probe makes its *)
(* own controller                                                          *)
Signalled(host) == {host}

(* The probes of run r after the probe of host resumed with q *)
Step(r, changed) ==
    LET run == runs[r]
        newly == SelectSeq(HOSTS, LAMBDA h : Pending(run.probes[h]) /\ ~Pending(changed[h]))
    IN  /\ runs' = [runs EXCEPT ![r] = [run EXCEPT !.probes = changed,
                                                  !.order = @ \o newly]]
        /\ UNCHANGED <<variant, hosts, net, expectedName, refFile, now, cache, nruns, callers, last,
                       degraded>>

(* A fetch of the probe answers with a status line and headers *)
Respond(r, host, res) ==
    /\ r \in DOMAIN runs
    /\ LET p == runs[r].probes[host]
       IN  /\ p.pc \in {"head", "get", "fetch"}
           /\ Step(r, [runs[r].probes EXCEPT ![host] =
                   Resume(host, p, Entry(Method(p), "response", res, JNull))])

(* res.json() settles: the body has been read *)
BodyArrives(r, host, body) ==
    /\ r \in DOMAIN runs
    /\ LET p == runs[r].probes[host]
       IN  /\ p.pc = "body"
           /\ Step(r, [runs[r].probes EXCEPT ![host] =
                   Resume(host, p, IF body.ok THEN Entry("json", "parsed", NoRes, body.v)
                                   ELSE Failure("json", "invalid"))])

(* DNS, connect or TLS failure, or the connection drops *)
TransportError(r, host) ==
    /\ r \in DOMAIN runs
    /\ LET p == runs[r].probes[host]
       IN  /\ Pending(p)
           /\ Step(r, [runs[r].probes EXCEPT ![host] =
                   Resume(host, p, Failure(Method(p), "error"))])

(* The deadline timer of the probe fires *)
Timeout(r, host) ==
    /\ r \in DOMAIN runs
    /\ runs[r].probes[host].timer = "armed"
    /\ now >= runs[r].probes[host].due
    /\ Step(r, [g \in HostSet |->
            IF g \in Signalled(host) /\ Pending(runs[r].probes[g])
            THEN Abort(g, runs[r].probes[g]) ELSE runs[r].probes[g]])

Without(f, x) == [y \in DOMAIN f \ {x} |-> f[y]]

(* The continuation of "await Promise.all(...)" in the closure.            *)
(* Fulfilled (every probe resolved): the closure stores the payload,       *)
(* replacing the cache object, and returns it to the callers awaiting it.  *)
(* Rejected (some probe rejected): the closure's promise rejects, the      *)
(* cache keeps that promise as inFlight.                                   *)
Settle(r) ==
    /\ r \in DOMAIN runs
    /\ runs[r].st = "active"
    /\ LET run == runs[r]
           awaiting(c) == callers[c].st = "waiting" /\ callers[c].run = r
       IN  IF \E h \in HostSet : run.probes[h].result = "rejected"
           THEN /\ runs' = [runs EXCEPT ![r].st = "failed"]
                /\ callers' = [c \in Callers |->
                       IF awaiting(c) THEN [callers[c] EXCEPT !.st = "failed"]
                       ELSE callers[c]]
                /\ UNCHANGED <<cache, last>>
           ELSE /\ AllSettled(run)
                /\ LET payload == Payload(PromiseAll(run))
                   IN  /\ cache' = [data |-> payload, expires |-> Expires(run, now),
                                    inFlight |-> 0]
                       /\ callers' = [c \in Callers |->
                              IF awaiting(c)
                              THEN [st |-> "returned", run |-> r, val |-> payload]
                              ELSE callers[c]]
                       /\ last' = [id |-> r, start |-> run.start, doneAt |-> now,
                                   verdict |-> [h \in HostSet |-> run.probes[h].result],
                                   order |-> run.order]
                       /\ runs' = Without(runs, r)
    /\ UNCHANGED <<variant, hosts, net, expectedName, refFile, now, nruns, degraded>>

Tick ==
    /\ now < MaxTime
    /\ now' = now + 1
    /\ UNCHANGED <<variant, hosts, net, expectedName, refFile, cache, runs, nruns, callers, last,
                   degraded>>

(* The reference file is replaced, removed or corrupted on disk *)
WriteFile(f) ==
    /\ variant = "server"
    /\ f # refFile
    /\ refFile' = f
    /\ UNCHANGED <<variant, hosts, net, expectedName, now, cache, runs, nruns, callers, last,
                   degraded>>

RunIds == 1..MaxRuns
AllHosts == {"minecraft.net", "sessionserver.mojang.com", "api.minecraftservices.com",
             "libraries.minecraft.net"}

(* The probe of host h in run r, when the run has not completed *)
Running(r, h) == r \in DOMAIN runs /\ h \in HostSet

Next ==
    \/ \E c \in DOMAIN callers : Get(c)
    \/ \E r \in RunIds, h \in AllHosts :
          h \in HostSet /\ \E res \in Responses(h) : Respond(r, h, res)
    \/ \E r \in RunIds, h \in AllHosts, b \in net.bodies : h \in HostSet /\ BodyArrives(r, h, b)
    \/ \E r \in RunIds, h \in AllHosts : h \in HostSet /\ TransportError(r, h)
    \/ \E r \in RunIds, h \in AllHosts : h \in HostSet /\ Timeout(r, h)
    \/ \E r \in RunIds : Settle(r)
    \/ Tick

(* The server, and the reference file changing under it *)
NextProbe ==
    \/ Next
    \/ \E f \in net.files : WriteFile(f)

Spec == Init /\ [][Next]_vars

PairSpec == InitPair /\ [][Next]_vars

ProbeSpec == InitProbe /\ [][NextProbe]_vars

CanonSpec == InitCanon /\ [][Next]_vars

(* The clock advances and a timer that is due fires *)
Fairness ==
    /\ WF_vars(Tick)
    /\ \A r \in RunIds : \A h \in AllHosts : WF_vars(h \in HostSet /\ Timeout(r, h))

LiveProbeSpec == ProbeSpec /\ Fairness

(* A settled promise runs its continuations *)
Progress == \A r \in RunIds : WF_vars(Settle(r))

LiveSpec == InitLive /\ [][Next]_vars /\ Fairness /\ Progress

----------------------------------------------------------------------------
(* Properties of the cache (getStatusData)                                 *)

ActiveRuns == {r \in DOMAIN runs : runs[r].st = "active"}

Waiting(c) == callers[c].st = "waiting"

(* The step is a call of getStatusData by c: only Get changes the record   *)
(* of a caller that is not waiting.                                        *)
IsGet(c) == ~Waiting(c) /\ callers'[c] # callers[c]

Valid == cache.data # NULL /\ now < cache.expires

(* C1: single-flight.  At most one fan-out run is active in any state, it  *)
(* is the run the cache holds as inFlight, and every caller that waits,    *)
(* waits for that run.                                                     *)
C1_SingleFlight ==
    /\ Cardinality(ActiveRuns) <= 1
    /\ \A r \in ActiveRuns : cache.inFlight = r
    /\ \A c \in DOMAIN callers : Waiting(c) => callers[c].run \in ActiveRuns

(* Two readers share the one refresh of an expired snapshot *)
C1_Witness ==
    /\ cache.data # NULL
    /\ Cardinality(ActiveRuns) = 1
    /\ \E c1, c2 \in DOMAIN callers : c1 # c2 /\ Waiting(c1) /\ Waiting(c2)

(* C2: the stored expiresAt is the completion time of the refresh that     *)
(* stored the snapshot, plus the TTL.                                      *)
C2_ExpiresAtCompletion ==
    cache.data # NULL => cache.expires = last.doneAt + CACHE_TTL_MS

C4_JoinersShareTheStoredSnapshot ==
    [][LET r == cache.inFlight
           done == r # 0 /\ cache'.inFlight = 0
       IN  /\ \A c \in DOMAIN callers :
                 (IsGet(c) /\ r # 0) =>
                     /\ callers'[c] = [st |-> "waiting", run |-> r, val |-> NULL]
                     /\ cache' = cache /\ runs' = runs
           /\ (cache'.data # cache.data \/ cache'.expires # cache.expires
                   \/ (r # 0 /\ cache'.inFlight # r)) => done
           /\ done =>
                 /\ cache'.data # NULL
                 /\ cache'.expires # cache.expires
                 /\ last'.id = r
                 /\ \A c \in DOMAIN callers :
                       (Waiting(c) /\ callers[c].run = r) <=>
                       (callers'[c] = [st |-> "returned", run |-> r, val |-> cache'.data]
                           /\ callers'[c] # callers[c])]_vars

(* The caller that started a run and one that joined it hold the snapshot  *)
(* the run stored                                                          *)
C4_Witness ==
    /\ last.id # 0
    /\ \E c1, c2 \in DOMAIN callers :
          /\ c1 # c2
          /\ callers[c1] = [st |-> "returned", run |-> last.id, val |-> cache.data]
          /\ callers[c2] = callers[c1]

(* C5: a stored snapshot has one entry per configured host, in list        *)
(* order, and entry i holds the verdict of the probe of host i.            *)
C5_SnapshotInHostOrder ==
    cache.data # NULL =>
        /\ Len(cache.data) = Len(HOSTS)
        /\ \A i \in 1..Len(HOSTS) : cache.data[i] = <<HOSTS[i], last.verdict[HOSTS[i]]>>

(* The probes settled in another order than the list's, with different     *)
(* verdicts                                                                *)
C5_Witness ==
    /\ cache.data # NULL
    /\ variant = "part0"
    /\ last.order = <<HOSTS[2], HOSTS[1]>>
    /\ last.verdict[HOSTS[1]] = "green"
    /\ last.verdict[HOSTS[2]] = "red"

IsSnapshot(v) ==
    /\ Len(v) = Len(HOSTS)
    /\ \A i \in 1..Len(v) : v[i][1] = HOSTS[i] /\ v[i][2] \in {"green", "red"}

(* C6: the stored snapshot is empty or the complete snapshot of a          *)
(* completed run, and a snapshot a caller received is complete and no      *)
(* probe of the run that produced it is pending.                           *)
C6_NoSnapshotInProgress ==
    /\ cache.data # NULL =>
          /\ IsSnapshot(cache.data)
          /\ last.id \notin DOMAIN runs
          /\ \A h \in HostSet : last.verdict[h] \in {"green", "red"}
    /\ \A c \in DOMAIN callers :
          callers[c].st = "returned" =>
              /\ IsSnapshot(callers[c].val)
              /\ callers[c].run \notin DOMAIN runs

(* The stored snapshot is served while the probes of the next run are      *)
(* pending                                                                 *)
C6_Witness ==
    /\ cache.data # NULL
    /\ \E r \in DOMAIN runs : \E h \in HostSet : Pending(runs[r].probes[h])
    /\ \E c \in DOMAIN callers :
          callers[c] = [st |-> "returned", run |-> last.id, val |-> cache.data]

----------------------------------------------------------------------------
(* Properties of the probes                                                *)

Default(h) == CUSTOM_CHECKS(h) = "none"

OkResponse(e) == e.out = "response" /\ e.status >= 200 /\ e.status < 400

(* C7: per-host isolation.  A step changes the probe of at most one host   *)
(* of a run, so a failure, a timeout or a red verdict of one host leaves   *)
(* the probes of the others as they were; a signal is aborted only by its  *)
(* own timer; no run is ever aborted; a host with the default check one of *)
(* whose requests was answered with an ok status is green; and the         *)
(* snapshot of a completed run holds, for each host, its probe's verdict.  *)
C7_PerHostIsolation ==
    [][/\ \A r \in DOMAIN runs \cap DOMAIN runs' : \A h \in HostSet :
              runs'[r].probes[h] # runs[r].probes[h] =>
                  \A g \in HostSet \ {h} : runs'[r].probes[g] = runs[r].probes[g]
       /\ \A r \in DOMAIN runs' :
              /\ runs'[r].st = "active"
              /\ \A h \in HostSet :
                    LET p == runs'[r].probes[h]
                    IN  /\ p.aborted => p.timer = "fired"
                        /\ (Default(h) /\ \E i \in 1..Len(p.log) : OkResponse(p.log[i]))
                               => p.result = "green"
       /\ \A r \in DOMAIN runs \ DOMAIN runs' : \A i \in 1..Len(HOSTS) :
              cache'.data[i] = <<HOSTS[i], runs[r].probes[HOSTS[i]].result>>]_vars

(* The second host timed out, then the first host answered ok and is green *)
C7_Witness ==
    \E r \in DOMAIN runs :
        LET p1 == runs[r].probes[HOSTS[1]]
            p2 == runs[r].probes[HOSTS[2]]
        IN  /\ runs[r].order = <<HOSTS[2], HOSTS[1]>>
            /\ p2.aborted /\ p2.result = "red"
            /\ ~p1.aborted /\ p1.result = "green"

(* The endpoint never answered: every awaited operation was aborted *)
NeverAnswered(p) == p.log # <<>> /\ \A i \in 1..Len(p.log) : p.log[i].out = "abort"

ProbeSafe(p) ==
    /\ p.result \in {"none", "green", "red"}
    /\ Pending(p) <=> p.result = "none"
    /\ Pending(p) => p.timer = "armed" /\ ~p.aborted
    /\ p.timer = "fired" => ~Pending(p) /\ p.result = "red"

(* C8: a probe never rejects; while it is pending its deadline timer is    *)
(* armed; once the timer has fired it is resolved (red); and every         *)
(* pending probe is eventually resolved to green or red.                   *)
C8_ProbeAlwaysResolves ==
    /\ [](\A r \in RunIds : \A h \in AllHosts :
             Running(r, h) => ProbeSafe(runs[r].probes[h]))
    /\ \A r \in RunIds : \A h \in AllHosts :
             (Running(r, h) /\ Pending(runs[r].probes[h]))
                 ~> (Running(r, h) /\ runs[r].probes[h].result \in {"green", "red"})

(* A probe of an endpoint that never answered was resolved red by its      *)
(* deadline                                                                *)
C8_Witness ==
    \E r \in DOMAIN runs : \E h \in HostSet :
        LET p == runs[r].probes[h]
        IN  NeverAnswered(p) /\ p.timer = "fired" /\ p.result = "red"

(* C9: getStatusData never fails.  No probe and no run rejects, the cache  *)
(* never holds a rejected promise, no caller receives a rejection, and     *)
(* what a caller receives is a snapshot.                                   *)
C9_GetStatusNeverFails ==
    /\ \A r \in DOMAIN runs :
          /\ runs[r].st = "active"
          /\ \A h \in HostSet : runs[r].probes[h].result # "rejected"
    /\ cache.inFlight # 0 => cache.inFlight \in ActiveRuns
    /\ \A c \in DOMAIN callers :
          /\ callers[c].st # "failed"
          /\ callers[c].st = "returned" => IsSnapshot(callers[c].val)

(* A caller received the snapshot of a run all of whose probes failed *)
C9_Witness ==
    /\ last.id # 0
    /\ \A h \in HostSet : last.verdict[h] = "red"
    /\ \E c \in DOMAIN callers :
          callers[c] = [st |-> "returned", run |-> last.id, val |-> cache.data]

(* The methods of the requests a probe has made: those it has awaited and  *)
(* the one it is awaiting                                                  *)
Issued(p) ==
    [i \in 1..Len(p.log) |-> p.log[i].m] \o (IF Pending(p) THEN <<Method(p)>> ELSE <<>>)

Count(seq, x) == Cardinality({i \in 1..Len(seq) : seq[i] = x})

(* C10: the default check issues a HEAD first; it issues a GET, once, iff  *)
(* the HEAD failed or answered with a status outside [200,400); and its    *)
(* verdict is green iff the HEAD or the GET was answered with a status in  *)
(* [200,400).                                                              *)
C10_BasicReachability ==
    \A r \in DOMAIN runs : \A h \in HostSet :
        Default(h) =>
            LET p == runs[r].probes[h]
                sent == Issued(p)
            IN  /\ sent[1] = "HEAD"
                /\ Count(sent, "HEAD") = 1
                /\ Count(sent, "GET") = Len(sent) - 1
                /\ Count(sent, "GET") =
                       (IF Len(p.log) >= 1 /\ ~OkResponse(p.log[1]) THEN 1 ELSE 0)
                /\ ~Pending(p) =>
                       (p.result = "green" <=> \E i \in 1..Len(p.log) : OkResponse(p.log[i]))

(* HEAD answered 404, the fallback GET answered 200: green *)
C10_Witness ==
    \E r \in DOMAIN runs : \E h \in HostSet :
        LET p == runs[r].probes[h]
        IN  /\ Default(h)
            /\ Len(p.log) = 2
            /\ p.log[1].m = "HEAD" /\ p.log[1].out = "response" /\ p.log[1].status = 404
            /\ p.log[2].m = "GET" /\ p.log[2].out = "response" /\ p.log[2].status = 200
            /\ p.result = "green"

----------------------------------------------------------------------------
(* Properties of the strategies                                            *)

(* C11: once the configuration of a host has failed to load, no later      *)
(* probe of that host is green, whatever the endpoint answers and whatever *)
(* happens to the reference file, and no probe raises the failure.         *)
C11_LoadFailureIsPermanent ==
    \A r \in DOMAIN runs : \A h \in HostSet :
        h \in degraded => runs[r].probes[h].result \notin {"green", "rejected"}

Check(h, kind) == CUSTOM_CHECKS(h) = kind

JSON == <<"j","s","o","n">>

(* The probe was answered with an ok status and then read a body that      *)
(* parsed                                                                  *)
BodyParsed(p) ==
    /\ Len(p.log) = 2
    /\ OkResponse(p.log[1])
    /\ p.log[2].out = "parsed"

(* C12 as claimed: the jsonAny verdict is green iff the status is in       *)
(* [200,400) and either the content-type contains "json" or the body       *)
(* parses.                                                                 *)
C12_AnyJsonContainsJson ==
    \A r \in DOMAIN runs : \A h \in HostSet :
        LET p == runs[r].probes[h]
        IN  (Check(h, "jsonAny") /\ ~Pending(p)) =>
                (p.result = "green" <=>
                    /\ p.log # <<>>
                    /\ OkResponse(p.log[1])
                    /\ \/ includes(toLowerCase(p.log[1].ct), JSON)
                       \/ BodyParsed(p))

(* C12 amended: the jsonAny verdict is green iff the status is in          *)
(* [200,400) and either the lower-cased content-type contains              *)
(* "application/json" or "+json", or the body parses; it is red for a      *)
(* non-ok status, a transport error, a timeout, or a body that neither     *)
(* carries such a content-type nor parses.  The body is read only when the *)
(* content-type does not decide.                                           *)
C12_AnyJsonVerdict ==
    \A r \in DOMAIN runs : \A h \in HostSet :
        LET p == runs[r].probes[h]
            declared == /\ p.log # <<>>
                        /\ OkResponse(p.log[1])
                        /\ \/ includes(toLowerCase(p.log[1].ct), APPLICATION_JSON)
                           \/ includes(toLowerCase(p.log[1].ct), PLUS_JSON)
        IN  Check(h, "jsonAny") =>
                /\ p.result \in {"none", "green", "red"}
                /\ ~Pending(p) => (p.result = "green" <=> (declared \/ BodyParsed(p)))
                /\ declared => Len(p.log) = 1

(* An ok answer of content-type text/json whose body does not parse: red *)
C12_Witness ==
    \E r \in DOMAIN runs : \E h \in HostSet :
        LET p == runs[r].probes[h]
        IN  /\ Check(h, "jsonAny")
            /\ Len(p.log) = 2
            /\ OkResponse(p.log[1])
            /\ p.log[1].ct = <<"t","e","x","t","/","j","s","o","n">>
            /\ p.log[2].out = "invalid"
            /\ p.result = "red"

(* C13: with a non-empty expected name the nameMatch verdict is green iff  *)
(* the status is in [200,400), the body parses and is an object whose name *)
(* field is the expected name, character for character; with no expected   *)
(* name the verdict is red and no request is made.                         *)
C13_NameMatchVerdict ==
    \A r \in DOMAIN runs : \A h \in HostSet :
        LET p == runs[r].probes[h]
        IN  Check(h, "nameMatch") =>
                /\ p.result \in {"none", "green", "red"}
                /\ expectedName = "" => p.result = "red" /\ p.log = <<>>
                /\ ~Pending(p) =>
                      (p.result = "green" <=>
                          /\ expectedName # ""
                          /\ BodyParsed(p)
                          /\ p.log[2].v.t = "obj"
                          /\ \E i \in 1..Len(p.log[2].v.kv) :
                                p.log[2].v.kv[i] = <<"name", JStr(expectedName)>>)

(* The expected name is "jeb_", the body's name is "Jeb_": red *)
C13_Witness ==
    \E r \in DOMAIN runs : \E h \in HostSet :
        LET p == runs[r].probes[h]
        IN  /\ Check(h, "nameMatch")
            /\ expectedName = "jeb_"
            /\ BodyParsed(p)
            /\ p.log[2].v = JObj(<< <<"name", JStr("Jeb_")>> >>)
            /\ p.result = "red"

(* The verdict of a settled jsonExactMatch probe is green iff the status   *)
(* is in [200,400), the body parses and the canonical strings of the body  *)
(* and of the reference document are equal                                 *)
ExactVerdict(p) ==
    p.result = "green" <=>
        /\ BodyParsed(p)
        /\ canonicalStringify(p.log[2].v) = canonicalStringify(p.expected)

(* C14 as claimed: a probe started while the reference file is missing or  *)
(* unparsable is red; with any reference document that was read and parsed *)
(* the probe asks the endpoint and its verdict is green iff the status is  *)
(* ok, the body parses and the canonical strings are equal.                *)
C14_ExactJsonAnyDocument ==
    [][\A r \in DOMAIN runs' : \A h \in HostSet :
          LET p == runs'[r].probes[h]
          IN  Check(h, "jsonExactMatch") =>
                  /\ (r \notin DOMAIN runs /\ ~refFile.ok) => p.result = "red"
                  /\ (r \notin DOMAIN runs /\ refFile.ok) =>
                         p.expected = refFile.v /\ Pending(p)
                  /\ ~Pending(p) /\ p.log # <<>> => ExactVerdict(p)]_vars

(* C14 amended: a probe started while the reference file is missing,       *)
(* unparsable or holds null is red without a request; otherwise the probe  *)
(* compares with the document it read, and its verdict is green iff the    *)
(* status is in [200,400), the body parses and the canonical strings of    *)
(* the body and of that document are equal.                                *)
C14_ExactJsonVerdict ==
    [][\A r \in DOMAIN runs' : \A h \in HostSet :
          LET p == runs'[r].probes[h]
          IN  Check(h, "jsonExactMatch") =>
                  /\ p.result \in {"none", "green", "red"}
                  /\ (r \notin DOMAIN runs /\ (~refFile.ok \/ refFile.v = JNull)) =>
                         p.result = "red" /\ p.log = <<>>
                  /\ (r \notin DOMAIN runs /\ refFile.ok /\ refFile.v # JNull) =>
                         p.expected = refFile.v /\ Pending(p)
                  /\ ~Pending(p) /\ p.log # <<>> => ExactVerdict(p)
                  /\ p.log = <<>> => p.result # "green"]_vars

(* The reference is {"b":2,"a":1}, the body {"a":1,"b":2}: green *)
C14_Witness ==
    \E r \in DOMAIN runs : \E h \in HostSet :
        LET p == runs[r].probes[h]
        IN  /\ Check(h, "jsonExactMatch")
            /\ p.expected = JObj(<< <<"b", JNum(2)>>, <<"a", JNum(1)>> >>)
            /\ BodyParsed(p)
            /\ p.log[2].v = JObj(<< <<"a", JNum(1)>>, <<"b", JNum(2)>> >>)
            /\ p.result = "green"

(* Structural equality of JSON values: sequences compared element by       *)
(* element in order, mappings key by key whatever the order of their pairs *)
RECURSIVE Equiv(_, _)
Equiv(x, y) ==
    /\ x.t = y.t
    /\ CASE x.t = "null" -> TRUE
         [] x.t = "num" -> x.n = y.n
         [] x.t = "str" -> x.s = y.s
         [] x.t = "arr" ->
               /\ Len(x.el) = Len(y.el)
               /\ \A i \in 1..Len(x.el) : Equiv(x.el[i], y.el[i])
         [] x.t = "obj" ->
               /\ {x.kv[i][1] : i \in 1..Len(x.kv)} = {y.kv[i][1] : i \in 1..Len(y.kv)}
               /\ \A i \in 1..Len(x.kv) : Equiv(x.kv[i][2], Lookup(y.kv, x.kv[i][1]))

(* C15: the canonical strings of the body and of the reference document    *)
(* that a probe compares are equal iff the two values are structurally     *)
(* equal, mappings compared as unordered and sequences as ordered, at      *)
(* every depth; the verdict follows the comparison.                        *)
C15_CanonicalEquality ==
    \A r \in DOMAIN runs : \A h \in HostSet :
        LET p == runs[r].probes[h]
        IN  (Check(h, "jsonExactMatch") /\ BodyParsed(p)) =>
                /\ canonicalStringify(p.log[2].v) = canonicalStringify(p.expected)
                       <=> Equiv(p.log[2].v, p.expected)
                /\ p.result = "green" <=> Equiv(p.log[2].v, p.expected)

(* Body and reference differ in key order at two depths: equal *)
C15_Witness ==
    \E r \in DOMAIN runs : \E h \in HostSet :
        LET p == runs[r].probes[h]
        IN  /\ Check(h, "jsonExactMatch")
            /\ BodyParsed(p)
            /\ p.expected = JObj(<< <<"a", AB>>, <<"b", L12>> >>)
            /\ p.log[2].v = JObj(<< <<"b", L12>>, <<"a", BA>> >>)
            /\ p.result = "green"

(* C16: a probe that has resolved has no deadline timer armed: the timer   *)
(* was never created (the probe made no request), was cleared by cancel(), *)
(* or has fired.                                                           *)
C16_TimerReleased ==
    \A r \in DOMAIN runs : \A h \in HostSet :
        LET p == runs[r].probes[h]
        IN  ~Pending(p) =>
                /\ p.timer \in {"none", "cleared", "fired"}
                /\ p.timer = "none" <=> p.log = <<>>
                /\ p.timer = "fired" <=> p.aborted

(* A probe resolved red by a transport error, its timer cleared *)
C16_Witness ==
    \E r \in DOMAIN runs : \E h \in HostSet :
        LET p == runs[r].probes[h]
        IN  /\ p.log # <<>>
            /\ p.log[Len(p.log)].out = "error"
            /\ p.result = "red"
            /\ p.timer = "cleared"

(* C17: the HEAD and the fallback GET of the default check run under one   *)
(* deadline, set when the probe starts and never set again; if the timer   *)
(* fires while the HEAD or the GET is awaited the GET fails and the        *)
(* verdict is red, so a GET is answered only before the deadline fired.    *)
C17_GetSharesDeadline ==
    \A r \in DOMAIN runs : \A h \in HostSet :
        LET p == runs[r].probes[h]
            n == Len(p.log)
        IN  Default(h) =>
                /\ p.due = runs[r].start + PROBE_TIMEOUT_MS
                /\ p.pc = "get" => p.timer = "armed" /\ ~p.aborted
                /\ p.timer = "fired" =>
                      /\ ~Pending(p) /\ p.result = "red"
                      /\ p.log[n].m = "GET" /\ p.log[n].out = "abort"
                /\ (n = 2 /\ p.log[2].out = "response") => p.timer = "cleared"

(* The HEAD answered 404, the deadline fired while the GET was awaited: red *)
C17_Witness ==
    \E r \in DOMAIN runs : \E h \in HostSet :
        LET p == runs[r].probes[h]
        IN  /\ Default(h)
            /\ Len(p.log) = 2
            /\ p.log[1].m = "HEAD" /\ p.log[1].out = "response" /\ p.log[1].status = 404
            /\ p.log[2].m = "GET" /\ p.log[2].out = "abort"
            /\ p.timer = "fired"
            /\ p.result = "red"

----------------------------------------------------------------------------
(* Properties of the cache's states                                        *)

(* C18: while a refresh is in flight (inFlight is set, a run is active)    *)
(* the stored snapshot is empty or expired; the step that starts a refresh *)
(* leaves snapshot, expiresAt and the clock as they are, so a refresh      *)
(* starts only when no unexpired snapshot exists.                          *)
C18_RefreshingExcludesValid ==
    (cache.inFlight # 0 \/ DOMAIN runs # {}) =>
        (cache.data = NULL \/ cache.expires <= now)

(* A refresh runs over an expired snapshot *)
C18_Witness ==
    /\ cache.inFlight # 0
    /\ cache.data # NULL
    /\ cache.expires <= now
    /\ \E h \in HostSet : Pending(runs[cache.inFlight].probes[h])

(* C19: a caller receives a snapshot either from a call that found the     *)
(* stored snapshot with expiresAt later than the time of the call, or from *)
(* the completion of the run it waited for, which stores that snapshot in  *)
(* the same step; a call that finds an expired snapshot and a refresh in   *)
(* flight waits for that run.                                              *)
C19_NeverServesStale ==
    [][\A c \in DOMAIN callers :
          /\ (callers'[c].st = "returned" /\ callers'[c] # callers[c]) =>
                \/ /\ ~Waiting(c)
                   /\ cache.data # NULL
                   /\ cache.expires > now
                   /\ callers'[c] = [st |-> "returned", run |-> 0, val |-> cache.data]
                \/ /\ Waiting(c)
                   /\ callers[c].run \in DOMAIN runs \ DOMAIN runs'
                   /\ last'.id = callers[c].run
                   /\ last'.doneAt = now
                   /\ callers'[c] = [st |-> "returned", run |-> callers[c].run,
                                     val |-> cache'.data]
          /\ (IsGet(c) /\ cache.data # NULL /\ cache.expires <= now /\ cache.inFlight # 0) =>
                callers'[c] = [st |-> "waiting", run |-> cache.inFlight, val |-> NULL]]_vars

(* One caller holds the snapshot that has expired, another arrived after   *)
(* the expiry and waits for the refresh                                    *)
C19_Witness ==
    /\ cache.data # NULL
    /\ cache.expires <= now
    /\ cache.inFlight # 0
    /\ \E c1, c2 \in DOMAIN callers :
          /\ callers[c1] = [st |-> "waiting", run |-> cache.inFlight, val |-> NULL]
          /\ callers[c2].st = "returned"
          /\ callers[c2].val = cache.data

(* The run r has completed: it stored its snapshot and cleared inFlight *)
Completed(r) == r \notin DOMAIN runs /\ last.id >= r /\ cache.data # NULL /\ cache.inFlight # r

(* C20: under fairness of the clock, of the deadline timers and of the     *)
(* continuation of a settled run, every refresh that has started           *)
(* completes, clearing inFlight and storing a snapshot, and every caller   *)
(* that waits receives a snapshot.                                         *)
C20_RefreshCompletes ==
    /\ \A r \in RunIds : (r \in DOMAIN runs) ~> Completed(r)
    /\ \A r \in RunIds : (cache.inFlight = r) ~> (cache.inFlight = 0 /\ last.id = r)
    /\ \A c \in 1..MaxCallers :
          (c \in DOMAIN callers /\ Waiting(c))
              ~> (c \in DOMAIN callers /\ callers[c].st = "returned"
                      /\ IsSnapshot(callers[c].val))

(* Two callers wait for a refresh whose endpoint never answers *)
C20_Witness ==
    /\ cache.inFlight # 0
    /\ \A h \in HostSet : Pending(runs[cache.inFlight].probes[h])
    /\ now >= runs[cache.inFlight].start + PROBE_TIMEOUT_MS
    /\ \E c1, c2 \in DOMAIN callers : c1 # c2 /\ Waiting(c1) /\ Waiting(c2)

====
